---- MODULE Spec2Model ----
(***************************************************************************)
(* Model of decorators/arg_checker.py (class ArgChecker): the decorator    *)
(* enforce_type_hints, the normalizer _make_typings_comparable and the two *)
(* checking passes _check_positional_args and _check_keyword_args.         *)
(*                                                                         *)
(* Python objects are modelled as follows.                                 *)
(*   - a class (int, str, np.int64, ...) is a string, its name;            *)
(*   - a type hint, or an entry of the normalized dict, is a record        *)
(*     [k, c, args]: k = "class" (c names the class), k = "Any"            *)
(*     (typing.Any), k = "alias" (a typing._GenericAlias whose __origin__  *)
(*     is c and whose __args__ are args), k = "tuple" (a plain tuple of    *)
(*     classes, args) and k = "str" (a string used as a hint);             *)
(*   - a runtime value is represented by its class, the only thing the     *)
(*     checks read (isinstance);                                           *)
(*   - typing semantics are those the source documents (lines 69-72):      *)
(*     type(Union[...]) and type(Optional[...]) are typing._GenericAlias.  *)
(***************************************************************************)
EXTENDS Naturals, Sequences, FiniteSets

VARIABLES
    arg_names,    \* full_argspec.args of the decorated function
    annotations,  \* full_argspec.annotations, the function's own dict of hints
    type_hints,   \* the normalized dict the wrapper closes over
    pc,           \* position of the program
    args,         \* positional values of the call in progress (their classes)
    kwargs,       \* keyword values of the call in progress, in keyword order
    i,            \* index of the loop in progress
    checked,      \* parameter names the two loops have visited in this call
    invoked,      \* how often func was entered in this call
    received,     \* what func was entered with
    outcome,      \* how the call ended: the exception raised or the value returned
    ncalls,       \* calls made to the wrapper so far
    repeat,       \* the call in progress repeats the previous call's arguments
    prev          \* the outcome of the call that is being repeated

vars == <<arg_names, annotations, type_hints, pc, args, kwargs, i, checked,
          invoked, received, outcome, ncalls, repeat, prev>>

\* Calls made to one wrapped function.
MaxCalls == 2

----------------------------------------------------------------------------
(* Classes and hints *)

\* The classes of the values passed in calls.
Classes == {"int", "int64", "bool", "str", "float", "NoneType",
            "list", "dict", "OrderedDict"}

\* The direct base class: bool derives from int, collections.OrderedDict
\* from dict; np.int64 does not derive from int.
Base(c) ==
    CASE c = "bool" -> "int"
      [] c = "OrderedDict" -> "dict"
      [] OTHER -> "object"

\* issubclass(c, d) for classes at most one level below object's children.
issubclass(c, d) == c = d \/ Base(c) = d \/ d = "object"

Cls(c) == [k |-> "class", c |-> c, args |-> <<>>]
Any == [k |-> "Any", c |-> "", args |-> <<>>]
Alias(origin, a) == [k |-> "alias", c |-> origin, args |-> a]
Tup(a) == [k |-> "tuple", c |-> "", args |-> a]
Str(s) == [k |-> "str", c |-> s, args |-> <<>>]

Union(a) == Alias("Union", a)
Optional(c) == Alias("Union", <<c, "NoneType">>)

SeqToSet(s) == {s[n] : n \in 1..Len(s)}

\* x in t, for a tuple t of classes
In(x, t) == \E n \in 1..Len(t) : t[n] = x

\* typing_inspect.get_origin: the __origin__ of a generic alias, else None
get_origin(arg_type) == IF arg_type.k = "alias" THEN arg_type.c ELSE "None"

\* isinstance(arg, accepted_types) for a value of class t: "True", "False",
\* or "TypeError" when the second argument is no class and no tuple of classes
isinstance(t, accepted_types) ==
    CASE accepted_types.k = "class" ->
            IF issubclass(t, accepted_types.c) THEN "True" ELSE "False"
      [] accepted_types.k = "tuple" ->
            IF \E n \in 1..Len(accepted_types.args) :
                    issubclass(t, accepted_types.args[n])
            THEN "True" ELSE "False"
      [] OTHER -> "TypeError"

----------------------------------------------------------------------------
(* _make_typings_comparable *)

\* The loop body without lines 122-123: a bare int is not widened
NormalizeEntryIntNotWidened(arg_type) ==
    LET orig_type == get_origin(arg_type)
        extracted ==
            IF arg_type.k = "alias"
            THEN IF In("int", arg_type.args)
                 THEN Tup(Append(arg_type.args, "int64"))
                 ELSE Tup(arg_type.args)
            ELSE arg_type
    IN  IF orig_type \in {"list", "dict", "tuple"}
        THEN Cls(orig_type)
        ELSE IF arg_type.k = "tuple" /\ In("int", arg_type.args)
        THEN Tup(Append(extracted.args, "int64"))
        ELSE extracted

\* The loop body without the continue of line 111: a List, Dict or Tuple
\* hint goes on into the extraction of __args__
NormalizeEntryNoContinue(arg_type) ==
    LET extracted ==
            IF arg_type.k = "alias"
            THEN IF In("int", arg_type.args)
                 THEN Tup(Append(arg_type.args, "int64"))
                 ELSE Tup(arg_type.args)
            ELSE arg_type
    IN  IF arg_type = Cls("int")
        THEN Tup(<<"int", "int64">>)
        ELSE IF arg_type.k = "tuple" /\ In("int", arg_type.args)
        THEN Tup(Append(extracted.args, "int64"))
        ELSE extracted

\* One iteration of the loop over new_dict: the value stored for arg_name.
NormalizeEntry(arg_type) ==
    LET orig_type == get_origin(arg_type)
        \* lines 115-119
        extracted ==
            IF arg_type.k = "alias"
            THEN IF In("int", arg_type.args)
                 THEN Tup(Append(arg_type.args, "int64"))
                 ELSE Tup(arg_type.args)
            ELSE arg_type
    IN  IF orig_type \in {"list", "dict", "tuple"}
        THEN Cls(orig_type)
        ELSE IF arg_type = Cls("int")
        THEN Tup(<<"int", "int64">>)
        ELSE IF arg_type.k = "tuple" /\ In("int", arg_type.args)
        THEN Tup(Append(extracted.args, "int64"))
        ELSE extracted

\* The call without the copy of line 100: the loop writes into the
\* caller's dict
_make_typings_comparable_in_place(types_dict) ==
    [ret |-> [n \in DOMAIN types_dict |-> NormalizeEntry(types_dict[n])],
     types_dict |-> [n \in DOMAIN types_dict |-> NormalizeEntry(types_dict[n])]]

\* The call _make_typings_comparable(types_dict): the dict returned, and the
\* caller's dict as the call leaves it (new_dict is a copy).
_make_typings_comparable(types_dict) ==
    [ret |-> [n \in DOMAIN types_dict |-> NormalizeEntry(types_dict[n])],
     types_dict |-> types_dict]

----------------------------------------------------------------------------
(* The checks *)

\* What one check, or one call, ends with.  exc is the exception raised
\* ("none": nothing raised); param, actual and accepted are what the
\* message of the exception names; ret holds the value returned, if any.
NoHint == [k |-> "", c |-> "", args |-> <<>>]
Ok == [exc |-> "none", param |-> "", actual |-> "", accepted |-> NoHint, ret |-> <<>>]
Pending == [exc |-> "pending", param |-> "", actual |-> "", accepted |-> NoHint, ret |-> <<>>]
Raise(e, n, t, acc) == [exc |-> e, param |-> n, actual |-> t, accepted |-> acc, ret |-> <<>>]
Returned(v) == [exc |-> "none", param |-> "", actual |-> "", accepted |-> NoHint, ret |-> <<v>>]

\* The assert of lines 166 and 200, for a value of class t
AssertInstance(arg_name, t, accepted_types) ==
    CASE isinstance(t, accepted_types) = "True" -> Ok
      [] isinstance(t, accepted_types) = "False" ->
            Raise("AssertionError", arg_name, t, accepted_types)
      [] OTHER -> Raise("TypeError", arg_name, t, accepted_types)

\* The loop body without the typing.Any test of lines 163-164
PositionalCheckAnyNotSkipped(arg_name, t, hints) ==
    IF arg_name = "self" THEN Ok
    ELSE IF arg_name \notin DOMAIN hints
    THEN Raise("KeyError", arg_name, "", NoHint)
    ELSE AssertInstance(arg_name, t, hints[arg_name])

\* The body of the loop of _check_positional_args for one value
PositionalCheck(arg_name, t, hints) ==
    IF arg_name = "self" THEN Ok
    ELSE IF arg_name \notin DOMAIN hints
    THEN Raise("KeyError", arg_name, "", NoHint)
    ELSE IF hints[arg_name] = Any THEN Ok
    ELSE AssertInstance(arg_name, t, hints[arg_name])

\* The body of the loop of _check_keyword_args for one value
KeywordCheck(arg_name, t, hints) ==
    IF arg_name \notin DOMAIN hints
    THEN Raise("KeyError", arg_name, "", NoHint)
    ELSE IF hints[arg_name] = Any THEN Ok
    ELSE AssertInstance(arg_name, t, hints[arg_name])

\* The decorated function: it returns a value that depends on everything
\* it is passed.
func(a, kw) == [args |-> a, kwargs |-> kw]

----------------------------------------------------------------------------
(* The decorated functions and the calls made to them *)

Hints ==
    { Cls("int"), Cls("str"), Cls("list"), Any,
      Union(<<"int", "str">>), Optional("str"), Optional("int"),
      Union(<<"int", "int64">>),
      Alias("list", <<"int">>), Alias("dict", <<"str", "int">>),
      Alias("tuple", <<"int", "str">>), Alias("list", <<>>),
      Tup(<<"int", "str">>), Tup(<<"int", "int64">>),
      Alias("set", <<"int">>), Str("int") }

\* The hints tried for the second parameter
FewHints == { Cls("int"), Cls("str"), Any, Alias("dict", <<"str", "int">>) }

\* The dict {n1: h1, n2: h2}; an entry whose hint is NoHint is left out
\* (the parameter carries no annotation).
Dict2(n1, h1, n2, h2) ==
    [n \in {m \in {n1} : h1 # NoHint} \cup {m \in {n2} : h2 # NoHint} |->
        IF n = n1 THEN h1 ELSE h2]

\* def f(a, b), def f(e, a) and def m(self, a), with and without annotations
Funcs ==
    { [names |-> <<"a", "b">>, hints |-> Dict2("a", h, "b", g)] :
        h \in Hints \cup {NoHint}, g \in FewHints \cup {NoHint} }
    \cup
    { [names |-> <<"self", "a">>, hints |-> Dict2("self", g, "a", h)] :
        h \in Hints \cup {NoHint}, g \in {Cls("str"), NoHint} }

\* Keyword arguments: name-value pairs with distinct names, in the order
\* they are written in the call
KwOver(names) ==
    {<<>>}
    \cup { <<[name |-> n, t |-> t]>> : n \in names, t \in Classes }
    \cup { <<[name |-> p[1], t |-> t], [name |-> p[2], t |-> u]>> :
            p \in {q \in names \X names : q[1] # q[2]},
            t \in Classes, u \in Classes }

\* The calls f(*args, **kwargs) that bind no parameter twice
Calls(names) ==
    UNION { { [args |-> a, kwargs |-> kw] :
                a \in [1..k -> Classes],
                kw \in KwOver({names[n] : n \in (k+1)..Len(names)}) } :
            k \in 0..Len(names) }

----------------------------------------------------------------------------
(* The program *)

Init ==
    /\ \E f \in Funcs : arg_names = f.names /\ annotations = f.hints
    /\ type_hints = <<>>
    /\ pc = "undecorated"
    /\ args = <<>>
    /\ kwargs = <<>>
    /\ i = 1
    /\ checked = <<>>
    /\ invoked = 0
    /\ received = <<>>
    /\ outcome = Pending
    /\ ncalls = 0
    /\ repeat = FALSE
    /\ prev = Pending

\* enforce_type_hints(func), lines 44-61
enforce_type_hints ==
    /\ pc = "undecorated"
    /\ LET r == _make_typings_comparable(annotations)
       IN  /\ type_hints' = r.ret
           /\ annotations' = r.types_dict
    /\ pc' = "idle"
    /\ UNCHANGED <<arg_names, args, kwargs, i, checked, invoked, received,
                   outcome, ncalls, repeat, prev>>

\* Entry into func_w_arg_dtypes_validated(*args, **kwargs)
Enter(a, kw, rep) ==
    /\ ncalls < MaxCalls
    /\ args' = a
    /\ kwargs' = kw
    /\ repeat' = rep
    /\ prev' = IF rep THEN outcome ELSE Pending
    /\ pc' = "positional"
    /\ i' = 1
    /\ checked' = <<>>
    /\ invoked' = 0
    /\ received' = <<>>
    /\ outcome' = Pending
    /\ ncalls' = ncalls + 1
    /\ UNCHANGED <<arg_names, annotations, type_hints>>

\* A call of the wrapper
Call == pc = "idle" /\ \E c \in Calls(arg_names) : Enter(c.args, c.kwargs, FALSE)

\* The same call once more
CallAgain == pc = "done" /\ Enter(args, kwargs, TRUE)

\* _check_positional_args, line 53: one iteration of its loop, or its return
CheckPositional ==
    /\ pc = "positional"
    /\ IF i > Len(args)
       THEN /\ pc' = "keyword"
            /\ i' = 1
            /\ UNCHANGED <<checked, outcome>>
       ELSE LET r == PositionalCheck(arg_names[i], args[i], type_hints)
            IN  /\ checked' = Append(checked, arg_names[i])
                /\ IF r.exc = "none"
                   THEN i' = i + 1 /\ UNCHANGED <<pc, outcome>>
                   ELSE pc' = "done" /\ outcome' = r /\ UNCHANGED i
    /\ UNCHANGED <<arg_names, annotations, type_hints, args, kwargs, invoked,
                   received, ncalls, repeat, prev>>

\* The wrapper without its call of _check_keyword_args
CheckKeywordLeftOut ==
    /\ pc = "keyword"
    /\ pc' = "call_func"
    /\ UNCHANGED <<arg_names, annotations, type_hints, args, kwargs, i,
                   checked, outcome, invoked, received, ncalls, repeat, prev>>

\* _check_keyword_args, line 54: one iteration of its loop, or its return
CheckKeyword ==
    /\ pc = "keyword"
    /\ IF i > Len(kwargs)
       THEN /\ pc' = "call_func"
            /\ UNCHANGED <<i, checked, outcome>>
       ELSE LET r == KeywordCheck(kwargs[i].name, kwargs[i].t, type_hints)
            IN  /\ checked' = Append(checked, kwargs[i].name)
                /\ IF r.exc = "none"
                   THEN i' = i + 1 /\ UNCHANGED <<pc, outcome>>
                   ELSE pc' = "done" /\ outcome' = r /\ UNCHANGED i
    /\ UNCHANGED <<arg_names, annotations, type_hints, args, kwargs, invoked,
                   received, ncalls, repeat, prev>>

\* return func(*args, **kwargs), line 56
CallFunc ==
    /\ pc = "call_func"
    /\ invoked' = invoked + 1
    /\ received' = <<[args |-> args, kwargs |-> kwargs]>>
    /\ outcome' = Returned(func(args, kwargs))
    /\ pc' = "done"
    /\ UNCHANGED <<arg_names, annotations, type_hints, args, kwargs, i,
                   checked, ncalls, repeat, prev>>

\* The call is over: its arguments and its outcome are dropped, the wrapper
\* is ready for the next call
Leave ==
    /\ pc = "done"
    /\ pc' = "idle"
    /\ args' = <<>>
    /\ kwargs' = <<>>
    /\ i' = 1
    /\ checked' = <<>>
    /\ invoked' = 0
    /\ received' = <<>>
    /\ outcome' = Pending
    /\ repeat' = FALSE
    /\ prev' = Pending
    /\ UNCHANGED <<arg_names, annotations, type_hints, ncalls>>

Next ==
    \/ enforce_type_hints
    \/ Call
    \/ CallAgain
    \/ CheckPositional
    \/ CheckKeyword
    \/ CallFunc
    \/ Leave

Spec == Init /\ [][Next]_vars

----------------------------------------------------------------------------
(* Vocabulary of the properties *)

\* The values supplied in the call, positional values first, then keyword
\* values, each with the parameter it binds
Supplied ==
    [n \in 1..(Len(args) + Len(kwargs)) |->
        IF n <= Len(args)
        THEN [name |-> arg_names[n], t |-> args[n], kw |-> FALSE]
        ELSE [name |-> kwargs[n - Len(args)].name,
              t |-> kwargs[n - Len(args)].t, kw |-> TRUE]]

\* Both checking passes return without raising
ChecksPass ==
    /\ \A n \in 1..Len(args) :
            PositionalCheck(arg_names[n], args[n], type_hints).exc = "none"
    /\ \A n \in 1..Len(kwargs) :
            KeywordCheck(kwargs[n].name, kwargs[n].t, type_hints).exc = "none"

\* The call ended with an exception
Failed == pc = "done" /\ outcome.exc # "none"

\* The n-th supplied value has been checked and let through
Passed(n) == n <= Len(checked) /\ ~(Failed /\ n = Len(checked))

\* The n-th supplied value is the one the call's exception was raised for
Stopped(n) == Failed /\ n = Len(checked)

----------------------------------------------------------------------------
(* Properties *)

\* C1: func is entered if and only if both checking passes went through
\* without raising: never before they are over, never when one of them
\* raised, and exactly once otherwise, with the positional and keyword
\* arguments of the call, its result being what the wrapper returns.
C1_FuncRunsIffValidated ==
    /\ invoked <= 1
    /\ pc \in {"positional", "keyword", "call_func"} => invoked = 0
    /\ invoked = 1 =>
        /\ pc = "done"
        /\ ChecksPass
        /\ received = <<[args |-> args, kwargs |-> kwargs]>>
        /\ outcome = Returned(func(args, kwargs))
    /\ pc = "done" =>
        /\ invoked = 1 <=> ChecksPass
        /\ invoked = 0 => outcome.exc \notin {"none", "pending"} /\ outcome.ret = <<>>

\* C1 witness: a call whose keyword value fails its check ended without
\* func having been entered.
C1_Witness ==
    /\ pc = "done"
    /\ outcome.exc = "AssertionError"
    /\ Len(args) = 1
    /\ Len(checked) = 2
    /\ invoked = 0

\* C2: no call ends with an exception raised for a parameter that has no
\* entry in the function's annotations.
C2_UndeclaredNeverRaises ==
    Failed => outcome.param \in DOMAIN annotations

\* C6: no call ends with an exception raised for the parameter self,
\* whether self was passed positionally or by keyword.
C6_ReceiverNeverRaises ==
    Failed => outcome.param # "self"

\* A hint that is one class, or a Union or Optional of classes
ConcreteOrUnion(h) == h.k = "class" \/ (h.k = "alias" /\ h.c = "Union")

\* The classes such a hint declares, np.int64 added when int is one of them
Widened(h) ==
    LET members == IF h.k = "class" THEN {h.c} ELSE SeqToSet(h.args)
    IN  members \cup (IF "int" \in members THEN {"int64"} ELSE {})

\* A List, Dict or Tuple hint
Container(h) == h.k = "alias" /\ h.c \in {"list", "dict", "tuple"}

\* The n-th supplied value is one the checks are meant to look at: its
\* parameter is annotated, and it is not self passed positionally
Looked(n) ==
    /\ Supplied[n].name \in DOMAIN annotations
    /\ ~(Supplied[n].name = "self" /\ ~Supplied[n].kw)

\* The call's exception is the assertion failure for the n-th supplied value
Rejected(n) ==
    /\ outcome.exc = "AssertionError"
    /\ outcome.param = Supplied[n].name
    /\ outcome.actual = Supplied[n].t

\* Every checked value whose hint is a class or a Union of classes was let
\* through if its class is acceptable and rejected otherwise, where
\* acceptable is: one of the widened member classes (exact), or one of them
\* or a subclass of one of them (not exact).
ConcreteVerdicts(exact) ==
    \A n \in 1..Len(checked) :
        (Looked(n) /\ ConcreteOrUnion(annotations[Supplied[n].name])) =>
            LET w == Widened(annotations[Supplied[n].name])
                ok == IF exact THEN Supplied[n].t \in w
                      ELSE \E m \in w : issubclass(Supplied[n].t, m)
            IN  /\ Passed(n) => ok
                /\ Stopped(n) => Rejected(n) /\ ~ok

\* C3 as stated: a value for a parameter declared as a class or a Union or
\* Optional of classes is accepted exactly when its class is one of the
\* declared members, or np.int64 when int is a member.
C3_AcceptsExactlyMembers == ConcreteVerdicts(TRUE)

\* C3 amended: such a value is accepted exactly when its class is one of the
\* declared members (np.int64 counted as a member when int is one) or a
\* subclass of one of them, and rejected with an AssertionError otherwise.
C3_AcceptsMembersAndSubclasses == ConcreteVerdicts(FALSE)

\* C3 witness: an np.int64 value went through for a parameter declared int,
\* and a later value was rejected.
C3_Witness ==
    /\ Failed
    /\ Len(checked) = 2
    /\ Looked(1) /\ annotations[Supplied[1].name] = Cls("int")
    /\ Supplied[1].t = "int64"
    /\ Looked(2) /\ ConcreteOrUnion(annotations[Supplied[2].name])
    /\ Rejected(2)

\* C4: a parameter declared typing.Any keeps typing.Any in the normalized
\* dict, and no value supplied for it, positionally or by keyword, makes the
\* call raise.
C4_AnyAlwaysAccepted ==
    /\ pc # "undecorated" =>
        \A n \in DOMAIN annotations : annotations[n] = Any => type_hints[n] = Any
    /\ \A n \in 1..Len(checked) :
        (Supplied[n].name \in DOMAIN annotations
            /\ annotations[Supplied[n].name] = Any) => Passed(n)

\* C4 witness: a call that passed one value positionally and one by keyword,
\* both for parameters declared typing.Any, returned.
C4_Witness ==
    /\ pc = "done" /\ outcome.exc = "none"
    /\ Len(args) = 1 /\ Len(kwargs) = 1
    /\ \A n \in 1..2 : Looked(n) /\ annotations[Supplied[n].name] = Any
    /\ Supplied[1].t = "str" /\ Supplied[2].t = "list"

\* The normalized dict holds the built-in class for every container hint, and
\* every checked value for such a parameter was let through if its class is
\* acceptable and rejected otherwise, where acceptable is: the built-in
\* class itself (exact), or it or a subclass of it (not exact).
ContainerVerdicts(exact) ==
    /\ pc # "undecorated" =>
        \A n \in DOMAIN annotations :
            Container(annotations[n]) => type_hints[n] = Cls(annotations[n].c)
    /\ \A n \in 1..Len(checked) :
        (Looked(n) /\ Container(annotations[Supplied[n].name])) =>
            LET c == annotations[Supplied[n].name].c
                ok == IF exact THEN Supplied[n].t = c
                      ELSE issubclass(Supplied[n].t, c)
            IN  /\ Passed(n) => ok
                /\ Stopped(n) => Rejected(n) /\ ~ok

\* C5 as stated: a List, Dict or Tuple hint normalizes to list, dict or
\* tuple alone, and a value is accepted exactly when its class is that
\* built-in class.
C5_ContainerAcceptsExactClass == ContainerVerdicts(TRUE)

\* C5 amended: a List, Dict or Tuple hint normalizes to list, dict or tuple
\* alone, and a value is accepted exactly when its class is that built-in
\* class or a subclass of it, and rejected with an AssertionError otherwise.
C5_ContainerAcceptsClassAndSubclasses == ContainerVerdicts(FALSE)

\* C5 witness: a list went through for a parameter declared List[int], and
\* a str was rejected for a parameter declared with a container hint.
C5_Witness ==
    /\ Failed
    /\ Len(checked) = 2
    /\ Looked(1) /\ annotations[Supplied[1].name] = Alias("list", <<"int">>)
    /\ Supplied[1].t = "list"
    /\ Looked(2) /\ Container(annotations[Supplied[2].name])
    /\ Supplied[2].t = "str"
    /\ Rejected(2)

\* The n-th supplied value is invalid: its parameter is annotated, is not
\* self, is not declared typing.Any, and the value is no instance of what
\* the parameter accepts
Invalid(n) ==
    /\ Supplied[n].name # "self"
    /\ Supplied[n].name \in DOMAIN type_hints
    /\ type_hints[Supplied[n].name] # Any
    /\ isinstance(Supplied[n].t, type_hints[Supplied[n].name]) = "False"

\* The first invalid value, in positional-then-keyword order
FirstInvalid == CHOOSE n \in 1..Len(Supplied) :
                    Invalid(n) /\ \A m \in 1..(n - 1) : ~Invalid(m)

\* C7: the values are checked in positional-then-keyword order, and a call
\* with invalid values ends with the AssertionError that names the first
\* invalid one, its class and what its parameter accepts, nothing after it
\* having been checked.
C7_FailsOnFirstInvalid ==
    /\ \A n \in 1..Len(checked) : checked[n] = Supplied[n].name
    /\ (pc = "done" /\ \E n \in 1..Len(Supplied) : Invalid(n)) =>
        /\ outcome = Raise("AssertionError", Supplied[FirstInvalid].name,
                           Supplied[FirstInvalid].t,
                           type_hints[Supplied[FirstInvalid].name])
        /\ Len(checked) = FirstInvalid

\* A hint of a shape the normalizer is meant for: a class, typing.Any, a
\* Union or Optional, a List, Dict or Tuple
Supported(h) ==
    \/ h.k \in {"class", "Any"}
    \/ h.k = "alias" /\ h.c \in {"Union", "list", "dict", "tuple"}

\* C8: a function with a hint of an unsupported shape is never wrapped:
\* decorating it fails, so the program never gets past decoration.
C8_UnsupportedHintNotWrapped ==
    (\E n \in DOMAIN annotations : ~Supported(annotations[n])) =>
        pc = "undecorated"

NoDuplicates(t) == \A m, n \in 1..Len(t) : t[m] = t[n] => m = n

\* C9: no entry of the normalized dict lists a class twice, and normalizing
\* an entry of the normalized dict once more gives an entry with the same
\* classes, none of them twice.
C9_NormalizeIdempotent ==
    pc # "undecorated" =>
        \A n \in DOMAIN type_hints :
            LET once == type_hints[n]
                twice == NormalizeEntry(once)
            IN  /\ NoDuplicates(once.args)
                /\ NoDuplicates(twice.args)
                /\ twice.k = once.k /\ twice.c = once.c
                /\ SeqToSet(twice.args) = SeqToSet(once.args)

\* C10: the normalized dict exists before the first call, no step after
\* decoration changes it, no step at all changes the function's own
\* annotations, and a call repeated with the same arguments ends as it did
\* the first time.
C10_HintsFixedAtDecoration ==
    /\ [](pc = "undecorated" => ncalls = 0)
    /\ [](pc # "undecorated" => DOMAIN type_hints = DOMAIN annotations)
    /\ [][/\ annotations' = annotations
          /\ pc # "undecorated" => type_hints' = type_hints]_vars
    /\ []((pc = "done" /\ repeat) => outcome = prev)

\* C10 witness: a failing call was repeated and has failed again.
C10_Witness ==
    /\ pc = "done" /\ repeat /\ ncalls = 2
    /\ outcome.exc = "AssertionError"
    /\ type_hints # annotations

====
